---- MODULE Spec2Model ----
(***************************************************************************)
(* Model of crawl_datasets.py: the numbeo table reader (read_table), the   *)
(* year enumeration (get_all_links), the page fetch (get_data) and the     *)
(* driver loop of __main__ over the link list.                             *)
(*                                                                         *)
(* Text is a sequence of one-character strings, so that substring tests,   *)
(* split() and int() are computed character by character.                  *)
(***************************************************************************)
EXTENDS Integers, Sequences, FiniteSets, TLC

VARIABLES
  arg,            \* the argument of a call of read_table or get_all_links
  ret,            \* what the call returned or raised
  dataset_links,  \* the text of dataset_links.txt
  links,          \* f.read().split("\n")
  pc,             \* where the driver is: start, loop, years, gitlink, done, crashed
  pos,            \* the position of raw in links
  files,          \* the directory data/: file name -> content
  gitlinks,       \* the lines written to github_links.txt
  year_links,     \* get_all_links(link, html) of the numbeo line under way
  data,           \* the per-year DataFrames collected so far
  requests,       \* the URLs requested during this run, in order
  served,         \* the pages answered to get_data for the line under way
  browser,        \* the links opened in the browser during this run
  error,          \* the exception that ended the run, if any
  run,            \* how many times the script has been started
  prev            \* how the previous run ended and the manifest it left

mainvars == <<dataset_links, links, pc, pos, files, gitlinks, year_links, data,
              requests, served, browser, error, run, prev>>
vars == <<arg, ret, dataset_links, links, pc, pos, files, gitlinks, year_links,
          data, requests, served, browser, error, run, prev>>

(***************************************************************************)
(* Bounds of the model.                                                    *)
(***************************************************************************)
\* nodes (elements and text nodes) in a header row or a body row
MaxCells == 2
\* nodes (rows and text nodes) in a table body
MaxBody == 2
\* options of the page-selection control
MaxOptions == 2
\* lines of dataset_links.txt
MaxLinks == 2
\* times the script is started
MaxRuns == 2

(***************************************************************************)
(* Text helpers: Python's str operations.                                  *)
(***************************************************************************)
Digit == {"0", "1", "2", "3", "4", "5", "6", "7", "8", "9"}

DigitVal(c) ==
  CASE c = "0" -> 0 [] c = "1" -> 1 [] c = "2" -> 2 [] c = "3" -> 3
    [] c = "4" -> 4 [] c = "5" -> 5 [] c = "6" -> 6 [] c = "7" -> 7
    [] c = "8" -> 8 [] c = "9" -> 9

DigitChar(d) ==
  CASE d = 0 -> "0" [] d = 1 -> "1" [] d = 2 -> "2" [] d = 3 -> "3"
    [] d = 4 -> "4" [] d = 5 -> "5" [] d = 6 -> "6" [] d = 7 -> "7"
    [] d = 8 -> "8" [] d = 9 -> "9"

RECURSIVE DigitsToNat(_)
DigitsToNat(s) ==
  IF s = <<>> THEN 0
  ELSE 10 * DigitsToNat(SubSeq(s, 1, Len(s) - 1)) + DigitVal(s[Len(s)])

\* str(n) for a natural number n
RECURSIVE NatToText(_)
NatToText(n) ==
  IF n < 10 THEN <<DigitChar(n)>>
  ELSE NatToText(n \div 10) \o <<DigitChar(n % 10)>>

\* m in s, for texts m and s
Contains(s, m) ==
  \E i \in 0..(Len(s) - Len(m)) : SubSeq(s, i + 1, i + Len(m)) = m

StartsWith(s, m) == Len(m) <= Len(s) /\ SubSeq(s, 1, Len(m)) = m

EndsWith(s, m) ==
  Len(m) <= Len(s) /\ SubSeq(s, Len(s) - Len(m) + 1, Len(s)) = m

\* s.split(sep) for a one-character separator: a non-empty list of fields
RECURSIVE Split(_, _)
Split(s, sep) ==
  IF \A i \in DOMAIN s : s[i] # sep THEN <<s>>
  ELSE LET p == CHOOSE i \in DOMAIN s :
                  s[i] = sep /\ \A j \in 1..(i - 1) : s[j] # sep
       IN  <<SubSeq(s, 1, p - 1)>> \o Split(SubSeq(s, p + 1, Len(s)), sep)

\* int(s) succeeds on a non-empty run of decimal digits
IsInt(s) == s # <<>> /\ \A i \in DOMAIN s : s[i] \in Digit

SeqsUpTo(S, n) == UNION {[1..k -> S] : k \in 0..n}

NoDuplicates(s) == \A i, j \in DOMAIN s : s[i] = s[j] => i = j

(***************************************************************************)
(* Values of a DataFrame cell: text, a number m / 10^e, or NaN.            *)
(***************************************************************************)
Str(t) == [k |-> "str", s |-> t, m |-> 0, e |-> 0]
Num(m, e) == [k |-> "num", s |-> <<>>, m |-> m, e |-> e]
NaN == [k |-> "nan", s |-> <<>>, m |-> 0, e |-> 0]

IsNumeric(v) == v.k \in {"num", "nan"}

Err(kind) == [err |-> kind]
IsErr(x) == "err" \in DOMAIN x
\* a Python list handed back by a step that may also raise
List(s) == [list |-> s]

(***************************************************************************)
(* pd.to_numeric on one text: digits with at most one decimal point; the   *)
(* empty text converts to NaN.                                             *)
(***************************************************************************)
Parses(t) ==
  \/ t = <<>>
  \/ /\ \A i \in DOMAIN t : t[i] \in Digit \cup {"."}
     /\ Cardinality({i \in DOMAIN t : t[i] = "."}) <= 1
     /\ \E i \in DOMAIN t : t[i] \in Digit

ParseNumber(t) ==
  IF t = <<>> THEN NaN
  ELSE LET dots == {i \in DOMAIN t : t[i] = "."}
           frac == IF dots = {} THEN 0 ELSE Len(t) - (CHOOSE i \in dots : TRUE)
       IN  Num(DigitsToNat(SelectSeq(t, LAMBDA c : c \in Digit)), frac)

\* a conversion that decides cell by cell instead of for the whole column
to_numeric_percell(col) ==
  [i \in DOMAIN col |->
     IF col[i].k = "str" /\ Parses(col[i].s) THEN ParseNumber(col[i].s)
     ELSE col[i]]

\* pd.to_numeric(column, errors='ignore'): all values converted, or none
to_numeric(col) ==
  IF \A i \in DOMAIN col : col[i].k = "str" /\ Parses(col[i].s)
  THEN [i \in DOMAIN col |-> ParseNumber(col[i].s)]
  ELSE col

(***************************************************************************)
(* Parsed markup.  A node is an element (name "th", "td", "tr") or a text  *)
(* node, whose name is None.  A table has the children of thead.tr and the *)
(* children of tbody; a row has its own children.                          *)
(***************************************************************************)
None == "None"

Elem(name, text) == [name |-> name, text |-> text]
TextNode == [name |-> None, text |-> <<" ">>]
Row(children) == [name |-> "tr", children |-> children]
TextRow == [name |-> None, children |-> <<>>]

\* the text of every child that is an element, in order (lines 44-46, 56-58)
RECURSIVE ElementTexts(_)
ElementTexts(children) ==
  IF children = <<>> THEN <<>>
  ELSE (IF Head(children).name # None THEN <<Str(Head(children).text)>>
        ELSE <<>>) \o ElementTexts(Tail(children))

(***************************************************************************)
(* DataFrames: column labels, one index label per row, and the rows, each  *)
(* a sequence of values aligned with the columns.                          *)
(***************************************************************************)
Frame(columns, index, rows) ==
  [columns |-> columns, index |-> index, rows |-> rows]

\* data_as_list[0] = i, kept unchanged
SetRank_keep(data_as_list, i) == data_as_list

\* data_as_list[0] = i
SetRank(data_as_list, i) == [data_as_list EXCEPT ![1] = Num(i, 0)]

\* np.array(list): one string among the items turns every item into a string
np_array(list) ==
  IF \A j \in DOMAIN list : list[j].k = "num" THEN list
  ELSE [j \in DOMAIN list |->
          IF list[j].k = "num" THEN Str(NatToText(list[j].m)) ELSE list[j]]

\* a constructor that cuts or pads the values to the columns
DataFrame_fit(values, columns) ==
  Frame(columns, <<0>>,
        <<[j \in DOMAIN columns |->
             IF j \in DOMAIN values THEN values[j] ELSE NaN]>>)

\* pd.DataFrame(values.reshape(1,-1), columns = columns)
DataFrame(values, columns) ==
  IF Len(values) # Len(columns) THEN Err("ValueError")
  ELSE Frame(columns, <<0>>, <<values>>)

\* the columns of the frames, each label once, in order of first appearance
RECURSIVE UnionColumns(_, _)
UnionColumns(frames, acc) ==
  IF frames = <<>> THEN acc
  ELSE UnionColumns(Tail(frames),
         acc \o SelectSeq(Head(frames).columns,
                          LAMBDA c : \A j \in DOMAIN acc : acc[j] # c))

\* the rows of frame f laid out on the given columns, NaN where f has none
Reindexed(f, columns) ==
  [i \in DOMAIN f.rows |->
     [j \in DOMAIN columns |->
        IF \E p \in DOMAIN f.columns : f.columns[p] = columns[j]
        THEN f.rows[i][CHOOSE p \in DOMAIN f.columns : f.columns[p] = columns[j]]
        ELSE NaN]]

RECURSIVE ConcatRows(_, _)
ConcatRows(frames, columns) ==
  IF frames = <<>> THEN <<>>
  ELSE Reindexed(Head(frames), columns) \o ConcatRows(Tail(frames), columns)

RECURSIVE ConcatIndex(_)
ConcatIndex(frames) ==
  IF frames = <<>> THEN <<>>
  ELSE Head(frames).index \o ConcatIndex(Tail(frames))

\* pd.concat(frames): rows and index labels appended in the order of the frames
concat(frames) ==
  IF frames = <<>> THEN Err("ValueError")
  ELSE LET columns == UnionColumns(frames, <<>>)
       IN  Frame(columns, ConcatIndex(frames), ConcatRows(frames, columns))

\* df.reset_index(drop = True)
reset_index(df) == [df EXCEPT !.index = [i \in DOMAIN df.rows |-> i - 1]]

\* the values of column j, top to bottom
Column(df, j) == [i \in DOMAIN df.rows |-> df.rows[i][j]]

\* for col in columns: data[col] = pd.to_numeric(data[col], errors='ignore')
ConvertColumns(df) ==
  IF ~NoDuplicates(df.columns) THEN Err("TypeError")
  ELSE [df EXCEPT !.rows =
          [i \in DOMAIN df.rows |->
             [j \in DOMAIN df.columns |-> to_numeric(Column(df, j))[i]]]]

\* one pass of the loop over a body row that is an element (lines 55-63)
RowFrame(columns, country, i) ==
  LET data_as_list == ElementTexts(country.children)
  IN  IF data_as_list = <<>> THEN Err("IndexError")
      ELSE DataFrame(np_array(SetRank(data_as_list, i)), columns)

\* the loop over tbody.children (lines 50-63), entered with rank i
RECURSIVE Frames(_, _, _)
Frames(columns, body, i) ==
  IF body = <<>> THEN List(<<>>)
  ELSE IF Head(body).name = None THEN Frames(columns, Tail(body), i)
  ELSE LET df == RowFrame(columns, Head(body), i + 1)
       IN  IF IsErr(df) THEN df
           ELSE LET rest == Frames(columns, Tail(body), i + 1)
                IN  IF IsErr(rest) THEN rest ELSE List(<<df>> \o rest.list)

Labels(columns) == [j \in DOMAIN columns |-> columns[j].s]

read_table(table) ==
  LET columns == Labels(ElementTexts(table.thead))
      dataframes == Frames(columns, table.tbody, 0)
  IN  IF IsErr(dataframes) THEN dataframes
      ELSE LET whole == concat(dataframes.list)
           IN  IF IsErr(whole) THEN whole
               ELSE ConvertColumns(reset_index(whole))

(***************************************************************************)
(* get_all_links.  A page has the options of its changePageForm element    *)
(* (or no such element) and its table elements.                            *)
(***************************************************************************)
MidYear == <<"M", "i", "d", "-", "Y", "e", "a", "r">>
TitleQuery == <<"?", "t", "i", "t", "l", "e", "=">>

Option(value, text) == [value |-> value, text |-> text]
Page(hasForm, options, tables) ==
  [hasForm |-> hasForm, options |-> options, tables |-> tables]

\* a filter that keeps every option
KeptYears_all(options) == [j \in DOMAIN options |-> options[j].value]

\* the values of the options whose text has no "Mid-Year" (lines 22-28)
RECURSIVE KeptYears(_)
KeptYears(options) ==
  IF options = <<>> THEN <<>>
  ELSE (IF ~Contains(Head(options).text, MidYear)
        THEN <<Head(options).value>> ELSE <<>>) \o KeptYears(Tail(options))

get_all_links(link, html) ==
  IF ~html.hasForm THEN Err("AttributeError")
  ELSE LET years == KeptYears(html.options)
       IN  List([j \in DOMAIN years |-> link \o TitleQuery \o years[j]])

(***************************************************************************)
(* get_data and the helpers of the driver.                                 *)
(***************************************************************************)
\* a response of requests.get: raised, or the content answered
Failed == [ok |-> FALSE, content |-> None]
Answer(content) == [ok |-> TRUE, content |-> content]

\* get_data on the response to its request (lines 80-89)
get_data(response) ==
  IF ~response.ok THEN Err("ConnectionError")
  ELSE LET tables == response.content.tables
       IN  IF Len(tables) < 2 THEN Err("IndexError")
           ELSE read_table(tables[2])

\* a loop that fetches the URL built for the year
FetchTarget_year(link, l) == l

\* the URL the loop over year_links hands to get_data (line 158)
FetchTarget(link, l) == link

YearLabel == <<"Y", "e", "a", "r">>

\* l.split("=")[-1].split("-")[0]
YearText(l) ==
  LET parts == Split(l, "=") IN Split(parts[Len(parts)], "-")[1]

\* a year taken from the whole trailing segment, digits only
YearOf_digits(l) ==
  LET parts == Split(l, "=")
      digits == SelectSeq(parts[Len(parts)], LAMBDA c : c \in Digit)
  IN  IF IsInt(digits) THEN Num(DigitsToNat(digits), 0) ELSE Err("ValueError")

\* int(l.split("=")[-1].split("-")[0])
YearOf(l) ==
  IF IsInt(YearText(l)) THEN Num(DigitsToNat(YearText(l)), 0)
  ELSE Err("ValueError")

\* raw_data["Year"] = year: a new last column, or the column of that label
SetYear(df, year) ==
  IF \E p \in DOMAIN df.columns : df.columns[p] = YearLabel
  THEN [df EXCEPT !.rows =
          [i \in DOMAIN df.rows |->
             [j \in DOMAIN df.columns |->
                IF df.columns[j] = YearLabel THEN year ELSE df.rows[i][j]]]]
  ELSE [df EXCEPT !.columns = Append(df.columns, YearLabel),
                  !.rows = [i \in DOMAIN df.rows |-> Append(df.rows[i], year)]]

\* a concatenation that keeps the first frame only
WholeData_first(frames) ==
  IF frames = <<>> THEN Err("ValueError") ELSE Head(frames)

\* whole_data = pd.concat(data) (line 163)
WholeData(frames) == concat(frames)

\* whole_data.to_csv(path): the index, the header and the rows
Csv(df) == [kind |-> "csv", index |-> df.index, columns |-> df.columns,
            rows |-> df.rows]

WORLDBANK == <<"w", "o", "r", "l", "d", "b", "a", "n", "k">>
OECD == <<"o", "e", "c", "d">>
NUMBEO == <<"n", "u", "m", "b", "e", "o">>

\* the branch of the if / elif chain a link takes (lines 134, 141, 146, 166)
Branch(link) ==
  IF Contains(link, WORLDBANK) THEN "worldbank"
  ELSE IF Contains(link, OECD) THEN "oecd"
  ELSE IF Contains(link, NUMBEO) THEN "numbeo"
  ELSE "manual"

CsvOf(name) == name \o <<".csv">>
ZipOf(name) == name \o <<".zip">>

\* a check that never finds the file
Exists_never(fs, name) == FALSE

\* f'{name}.csv' in os.listdir()
Exists(fs, name) == CsvOf(name) \in DOMAIN fs

\* open(path, "wb").write(content), to_csv(path)
WriteFile(fs, path, content) ==
  [f \in DOMAIN fs \cup {path} |-> IF f = path THEN content ELSE fs[f]]

RemoveFile(fs, path) == [f \in DOMAIN fs \ {path} |-> fs[f]]

\* os.rename(old, new)
RenameFile(fs, old, new) ==
  IF old = new THEN fs
  ELSE [f \in (DOMAIN fs \ {old}) \cup {new} |-> IF f = new THEN fs[old] ELSE fs[f]]

\* the content of a zip archive: member name -> member content
Zip(members) == [kind |-> "zip", members |-> members]
NotZip == [kind |-> "html", members |-> <<>>]

\* extract_zip(filename) in the directory fs: the exception raised, if any,
\* and the directory it leaves (lines 100-108)
extract_zip(fs, filename) ==
  LET archive == fs[filename] IN
  IF archive.kind # "zip" THEN [err |-> "BadZipFile", files |-> fs]
  ELSE LET wanted == SelectSeq(archive.members,
                       LAMBDA m : StartsWith(m.name, <<"API_">>)
                                    /\ EndsWith(m.name, <<".csv">>))
       IN  IF wanted = <<>> THEN [err |-> "IndexError", files |-> fs]
           ELSE LET file == wanted[1].name
                    extracted == WriteFile(fs, file, wanted[1].content)
                    renamed == RenameFile(extracted, file,
                                 SubSeq(filename, 1, Len(filename) - 1) \o <<".csv">>)
                IN  [err |-> None, files |-> RemoveFile(renamed, filename)]

GitPrefix ==
  <<"https://raw.githubusercontent.com/papstchaka/dopp_datasets/master/data/">>

\* the manifest line of a dataset (line 174)
GitLink(name) == GitPrefix \o name \o <<".csv", "\n">>

(***************************************************************************)
(* The two functions applied to bounded inputs.                            *)
(***************************************************************************)
\* the label of the j-th element of a header row
LabelAt(j) == <<"c">> \o NatToText(j)

\* markup written on separate lines: a text node around every element
Spaced(elements, text) ==
  [j \in 1..(2 * Len(elements) + 1) |->
     IF j % 2 = 1 THEN text ELSE elements[j \div 2]]

Layout(elements, text, spaced) ==
  IF spaced THEN Spaced(elements, text) ELSE elements

HeaderCells(n) == [j \in 1..n |-> Elem("th", LabelAt(j))]

CellTexts == {<<"7">>, <<"O", "s">>}

BodyRows == SeqsUpTo(SeqsUpTo(CellTexts, MaxCells), MaxBody)

MakeTable(n, body, spaced) ==
  [thead |-> Layout(HeaderCells(n), TextNode, spaced),
   tbody |-> Layout([i \in DOMAIN body |->
                       Row(Layout([j \in DOMAIN body[i] |-> Elem("td", body[i][j])],
                                  TextNode, spaced))],
                    TextRow, spaced)]

\* tables with an empty cell, decimals, a half-numeric text, stray text
\* nodes and a repeated label
OddTables ==
  { MakeTable(2, <<<<<<"x">>, <<>>>>, <<<<"y">>, <<"1", ".", "5">>>>>>, FALSE),
    MakeTable(2, <<<<<<"x">>, <<"7", ".">>>>, <<<<>>, <<".", "5">>>>>>, TRUE),
    MakeTable(2, <<<<<<"x">>, <<"4", "x">>>>, <<<<"y">>, <<"4">>>>>>, FALSE),
    MakeTable(2, <<<<<<"x">>, <<"1", ".", "2", ".", "3">>>>>>, FALSE),
    [thead |-> <<Elem("th", LabelAt(1))>>,
     tbody |-> <<TextRow, TextRow, Row(<<Elem("td", <<"x">>), TextNode, TextNode>>),
                 TextRow, Row(<<TextNode, Elem("td", <<"y">>)>>)>>],
    [thead |-> <<Elem("th", LabelAt(1)), Elem("th", LabelAt(1))>>,
     tbody |-> <<Row(<<Elem("td", <<"x">>), Elem("td", <<"7">>)>>)>>] }

Tables ==
  {MakeTable(n, b, sp) : n \in 0..MaxCells, b \in BodyRows, sp \in BOOLEAN}
    \cup OddTables

BaseLink == <<"n", "u", "m", "b", "e", "o">>

Options ==
  { Option(<<"1", "9">>, <<"1", "9">>),
    Option(<<"2", "0">>, <<"2", "0">>),
    Option(<<"1", "9", "-", "m">>, <<"1", "9", " ">> \o MidYear),
    Option(<<"2", "0", "-", "m">>, <<"M", "i", "d", "Y", "e", "a", "r">>) }

Forms ==
  {Page(TRUE, o, <<>>) : o \in SeqsUpTo(Options, MaxOptions)}
    \cup {Page(FALSE, <<>>, <<>>)}

Pending == [pending |-> TRUE]
IsPending(x) == "pending" \in DOMAIN x

\* an empty directory
EmptyDir == [f \in {} |-> None]
NoRun == [ran |-> FALSE, completed |-> FALSE, gitlinks |-> <<>>]

\* the driver not started
MainQuiet ==
  /\ dataset_links = <<>>
  /\ links = <<>>
  /\ pc = "start"
  /\ pos = 0
  /\ files = EmptyDir
  /\ gitlinks = <<>>
  /\ year_links = <<>>
  /\ data = <<>>
  /\ requests = <<>>
  /\ served = <<>>
  /\ browser = <<>>
  /\ error = None
  /\ run = 0
  /\ prev = NoRun

FnInit ==
  /\ MainQuiet
  /\ arg \in {[fn |-> "read_table", table |-> t] : t \in Tables}
        \cup {[fn |-> "get_all_links", link |-> BaseLink, html |-> h] : h \in Forms}
  /\ ret = Pending

CallReadTable ==
  /\ ret = Pending
  /\ arg.fn = "read_table"
  /\ ret' = read_table(arg.table)
  /\ UNCHANGED <<arg, mainvars>>

CallGetAllLinks ==
  /\ ret = Pending
  /\ arg.fn = "get_all_links"
  /\ ret' = get_all_links(arg.link, arg.html)
  /\ UNCHANGED <<arg, mainvars>>

FnNext == CallReadTable \/ CallGetAllLinks

SpecFn == FnInit /\ [][FnNext]_vars

(***************************************************************************)
(* The script run on a bounded link list against a server that may answer  *)
(* any request with any of its pages, or not at all.                       *)
(***************************************************************************)
MANUAL == <<"w", "h", "o">>

\* '<link> <name>'
Line(link, name) == link \o <<" ">> \o name

\* one line per branch, the oecd dataset named like a member of the World
\* Bank archive; the empty line is what a final newline leaves
Lines ==
  { Line(WORLDBANK, <<"a">>), Line(OECD, <<"API_", "1">>), Line(NUMBEO, <<"c">>),
    Line(MANUAL, <<"d">>), <<>> }

RECURSIVE JoinLines(_)
JoinLines(ls) ==
  IF ls = <<>> THEN <<>>
  ELSE IF Len(ls) = 1 THEN ls[1]
  ELSE ls[1] \o <<"\n">> \o JoinLines(Tail(ls))

LinkLists == {JoinLines(ls) : ls \in SeqsUpTo(Lines, MaxLinks)}

Opt19 == Option(<<"1", "9">>, <<"1", "9">>)
Opt20 == Option(<<"2", "0">>, <<"2", "0">>)
Opt19Mid == Option(<<"1", "9", "-", "m">>, <<"1", "9", " ">> \o MidYear)
Opt21Half == Option(<<"2", "1", "-", "1">>, <<"2", "1", " ", "H", "1">>)
OptLatest == Option(<<"n", "o", "w">>, <<"n", "o", "w">>)

ChromeTable == MakeTable(1, <<<<<<"m">>>>>>, FALSE)
CityTable ==
  MakeTable(2, <<<<<<"9">>, <<"Z">>>>, <<<<"1">>, <<"O">>>>>>, TRUE)
IndexTable == MakeTable(3, <<<<<<"3">>, <<"x">>, <<"2", ".", "5">>>>>>, FALSE)
YearTable ==
  [thead |-> <<Elem("th", LabelAt(1)), Elem("th", YearLabel)>>,
   tbody |-> <<Row(<<Elem("td", <<"5">>), Elem("td", <<"1", "8">>)>>)>>]
RaggedTable == MakeTable(2, <<<<<<"1">>>>>>, FALSE)
EmptyTable == MakeTable(2, <<>>, TRUE)

NumbeoPages ==
  { Page(TRUE, <<Opt19, Opt19Mid, Opt20>>, <<ChromeTable, CityTable>>),
    Page(TRUE, <<Opt20>>, <<ChromeTable, IndexTable>>),
    Page(TRUE, <<Opt20, Opt21Half>>, <<ChromeTable, YearTable>>),
    Page(FALSE, <<>>, <<ChromeTable, CityTable>>),
    Page(TRUE, <<Opt19>>, <<ChromeTable>>),
    Page(TRUE, <<Opt19Mid>>, <<ChromeTable, CityTable>>),
    Page(TRUE, <<Opt19, OptLatest>>, <<ChromeTable, RaggedTable>>),
    Page(TRUE, <<Opt20, Opt19>>, <<ChromeTable, EmptyTable>>) }

Member(name, content) == [name |-> name, content |-> content]

WorldbankContents ==
  { Zip(<<Member(<<"Metadata_", "1", ".csv">>, "meta"),
          Member(<<"API_", "1", ".csv">>, "api1"),
          Member(<<"API_", "2", ".csv">>, "api2")>>),
    Zip(<<Member(<<"Metadata_", "1", ".csv">>, "meta")>>),
    NotZip }

OecdContents == {"oecd csv"}

\* what the server may answer to a request for url
Responses(url) ==
  {Failed} \cup
    {Answer(c) : c \in
       CASE Branch(url) = "worldbank" -> WorldbankContents
         [] Branch(url) = "oecd" -> OecdContents
         [] OTHER -> NumbeoPages}

Init ==
  /\ arg = None
  /\ ret = Pending
  /\ dataset_links \in LinkLists
  /\ links = <<>>
  /\ pc = "start"
  /\ pos = 0
  /\ files \in {EmptyDir, WriteFile(EmptyDir, CsvOf(<<"d">>), "by hand")}
  /\ gitlinks = <<>>
  /\ year_links = <<>>
  /\ data = <<>>
  /\ requests = <<>>
  /\ served = <<>>
  /\ browser = <<>>
  /\ error = None
  /\ run = 0
  /\ prev = NoRun

\* the script is started (lines 112-129): links read, manifest made anew
StartRun ==
  /\ pc \in {"start", "done", "crashed"}
  /\ run < MaxRuns
  /\ run' = run + 1
  /\ prev' = [ran |-> run > 0, completed |-> pc = "done", gitlinks |-> gitlinks]
  /\ links' = Split(dataset_links, "\n")
  /\ gitlinks' = <<>>
  /\ pos' = 1
  /\ pc' = "loop"
  /\ year_links' = <<>>
  /\ data' = <<>>
  /\ requests' = <<>>
  /\ served' = <<>>
  /\ browser' = <<>>
  /\ error' = None
  /\ UNCHANGED <<arg, ret, dataset_links, files>>

AtLine == pc = "loop" /\ pos \in DOMAIN links
Fields == Split(links[pos], " ")
WellFormed == Len(Fields) = 2
link == Fields[1]
name == Fields[2]

\* an exception that the loop catches, going on to the manifest line
Raise_caught(kind) ==
  /\ pc' = "gitlink"
  /\ error' = kind
  /\ UNCHANGED <<arg, ret, dataset_links, links, pos, gitlinks, browser, run, prev>>

\* an exception leaves the loop and ends the script
Raise(kind) ==
  /\ pc' = "crashed"
  /\ error' = kind
  /\ UNCHANGED <<arg, ret, dataset_links, links, pos, gitlinks, browser, run, prev>>

\* link, name = raw.split(" ") on a line without exactly two fields
BadLine ==
  /\ AtLine
  /\ ~WellFormed
  /\ Raise("ValueError")
  /\ UNCHANGED <<files, year_links, data, requests, served>>

\* any branch, when f'{name}.csv' is in os.listdir()
SkipExisting ==
  /\ AtLine
  /\ WellFormed
  /\ Exists(files, name)
  /\ pc' = "gitlink"
  /\ UNCHANGED <<arg, ret, dataset_links, links, pos, files, gitlinks,
                 year_links, data, requests, served, browser, error, run, prev>>

\* the worldbank branch (lines 136-140)
Worldbank ==
  /\ AtLine
  /\ WellFormed
  /\ Branch(link) = "worldbank"
  /\ ~Exists(files, name)
  /\ requests' = Append(requests, link)
  /\ \E r \in Responses(link) :
       IF ~r.ok THEN Raise("ConnectionError") /\ UNCHANGED files
       ELSE LET out == extract_zip(WriteFile(files, ZipOf(name), r.content),
                                   ZipOf(name))
            IN  /\ files' = out.files
                /\ IF out.err # None THEN Raise(out.err)
                   ELSE /\ pc' = "gitlink"
                        /\ UNCHANGED <<arg, ret, dataset_links, links, pos,
                                       gitlinks, browser, error, run, prev>>
  /\ UNCHANGED <<year_links, data, served>>

\* the oecd branch (lines 143-145)
Oecd ==
  /\ AtLine
  /\ WellFormed
  /\ Branch(link) = "oecd"
  /\ ~Exists(files, name)
  /\ requests' = Append(requests, link)
  /\ \E r \in Responses(link) :
       IF ~r.ok THEN Raise("ConnectionError") /\ UNCHANGED files
       ELSE /\ files' = WriteFile(files, CsvOf(name), r.content)
            /\ pc' = "gitlink"
            /\ UNCHANGED <<arg, ret, dataset_links, links, pos, gitlinks,
                           browser, error, run, prev>>
  /\ UNCHANGED <<year_links, data, served>>

\* the numbeo branch up to the loop over the years (lines 148-154)
NumbeoYears ==
  /\ AtLine
  /\ WellFormed
  /\ Branch(link) = "numbeo"
  /\ ~Exists(files, name)
  /\ requests' = Append(requests, link)
  /\ \E r \in Responses(link) :
       IF ~r.ok
       THEN Raise("ConnectionError") /\ UNCHANGED <<year_links, data, served>>
       ELSE LET got == get_all_links(link, r.content)
            IN  IF IsErr(got)
                THEN Raise(got.err) /\ UNCHANGED <<year_links, data, served>>
                ELSE /\ year_links' = got.list
                     /\ data' = <<>>
                     /\ served' = <<>>
                     /\ pc' = "years"
                     /\ UNCHANGED <<arg, ret, dataset_links, links, pos,
                                    gitlinks, browser, error, run, prev>>
  /\ UNCHANGED files

\* one pass of the loop over year_links (lines 156-161)
NumbeoFetch ==
  /\ pc = "years"
  /\ Len(data) < Len(year_links)
  /\ LET l == year_links[Len(data) + 1]
         url == FetchTarget(link, l)
     IN  /\ requests' = Append(requests, url)
         /\ \E r \in Responses(url) :
              LET raw_data == get_data(r)
                  year == YearOf(l)
              IN  IF IsErr(raw_data)
                  THEN Raise(raw_data.err) /\ UNCHANGED <<data, served>>
                  ELSE IF IsErr(year)
                  THEN Raise(year.err) /\ UNCHANGED <<data, served>>
                  ELSE /\ data' = Append(data, SetYear(raw_data, year))
                       /\ served' = Append(served, r.content)
                       /\ UNCHANGED <<arg, ret, dataset_links, links, pc, pos,
                                      gitlinks, browser, error, run, prev>>
  /\ UNCHANGED <<files, year_links>>

\* after the loop: concatenate and write the csv (lines 162-165)
NumbeoWrite ==
  /\ pc = "years"
  /\ Len(data) = Len(year_links)
  /\ LET whole_data == WholeData(data)
     IN  IF IsErr(whole_data) THEN Raise(whole_data.err) /\ UNCHANGED files
         ELSE /\ files' = WriteFile(files, CsvOf(name), Csv(whole_data))
              /\ pc' = "gitlink"
              /\ UNCHANGED <<arg, ret, dataset_links, links, pos, gitlinks,
                             browser, error, run, prev>>
  /\ UNCHANGED <<year_links, data, requests, served>>

\* the else branch: the link is opened in the browser (lines 168-172)
Manual ==
  /\ AtLine
  /\ WellFormed
  /\ Branch(link) = "manual"
  /\ ~Exists(files, name)
  /\ browser' = Append(browser, link)
  /\ pc' = "gitlink"
  /\ UNCHANGED <<arg, ret, dataset_links, links, pos, files, gitlinks,
                 year_links, data, requests, served, error, run, prev>>

\* gitlinks.write(gitlink) and on to the next line (lines 174-175)
WriteGitlink ==
  /\ pc = "gitlink"
  /\ gitlinks' = Append(gitlinks, GitLink(name))
  /\ pos' = pos + 1
  /\ pc' = "loop"
  /\ UNCHANGED <<arg, ret, dataset_links, links, files, year_links, data,
                 requests, served, browser, error, run, prev>>

\* the loop is through: gitlinks.close() (line 176)
Finish ==
  /\ pc = "loop"
  /\ pos > Len(links)
  /\ pc' = "done"
  /\ UNCHANGED <<arg, ret, dataset_links, links, pos, files, gitlinks,
                 year_links, data, requests, served, browser, error, run, prev>>

Next ==
  \/ StartRun
  \/ BadLine
  \/ SkipExisting
  \/ Worldbank
  \/ Oecd
  \/ NumbeoYears
  \/ NumbeoFetch
  \/ NumbeoWrite
  \/ Manual
  \/ WriteGitlink
  \/ Finish

Spec == Init /\ [][Next]_vars

(***************************************************************************)
(* Properties of read_table and get_all_links (checked under SpecFn).      *)
(***************************************************************************)
\* what the properties read off the input markup
Elements(nodes) == SelectSeq(nodes, LAMBDA n : n.name # None)
HeaderCount == Len(Elements(arg.table.thead))
ElementRows == Elements(arg.table.tbody)
\* the text assembled for row i, column j: the rank in the first column
AssembledText(i, j) ==
  IF j = 1 THEN NatToText(i) ELSE Elements(ElementRows[i].children)[j].text

ReadTableReturned == arg.fn = "read_table" /\ ~IsPending(ret) /\ ~IsErr(ret)
ReadTableRaised == arg.fn = "read_table" /\ ~IsPending(ret) /\ IsErr(ret)

\* C1: every row of a Dataset returned by read_table has exactly as many
\* values as the header row has element cells, and a body row whose
\* element-cell count differs from that number makes read_table raise.
C1_RowWidth ==
  /\ ReadTableReturned =>
       /\ Len(ret.columns) = HeaderCount
       /\ \A i \in DOMAIN ret.rows : Len(ret.rows[i]) = HeaderCount
  /\ (/\ arg.fn = "read_table"
      /\ ~IsPending(ret)
      /\ \E i \in DOMAIN ElementRows :
           Len(Elements(ElementRows[i].children)) # HeaderCount)
       => IsErr(ret)

\* a row with one cell too many or too few (but not none) was read and raised
C1_Witness ==
  /\ ReadTableRaised
  /\ HeaderCount = 2
  /\ \E i \in DOMAIN ElementRows : Len(Elements(ElementRows[i].children)) = 1
  /\ \A i \in DOMAIN ElementRows : Len(Elements(ElementRows[i].children)) >= 1

\* C2: in a returned Dataset the first value of the i-th element row is the
\* number i whatever text the cell held, and there is one row per element
\* row of the body: text nodes between rows do not advance the rank.
C2_Rank ==
  ReadTableReturned =>
    /\ Len(ret.rows) = Len(ElementRows)
    /\ ret.index = [i \in DOMAIN ElementRows |-> i - 1]
    /\ \A i \in DOMAIN ret.rows : ret.rows[i][1] = Num(i, 0)

\* two rows read from a body with text nodes, the second cell of rank 2
\* holding the text "7"
C2_Witness ==
  /\ ReadTableReturned
  /\ Len(ret.rows) = 2
  /\ Len(arg.table.tbody) > 2
  /\ Elements(ElementRows[2].children)[1].text = <<"7">>
  /\ ret.rows[2][1] = Num(2, 0)

GetAllLinksReturned ==
  arg.fn = "get_all_links" /\ ~IsPending(ret) /\ ~IsErr(ret)

\* C4: get_all_links returns, for the options whose text does not contain
\* "Mid-Year" and in their order, exactly the URLs <link>?title=<value>.
C4_YearLinks ==
  GetAllLinksReturned =>
    LET kept == SelectSeq(arg.html.options,
                          LAMBDA o : ~Contains(o.text, MidYear))
    IN  ret.list = [j \in DOMAIN kept |-> arg.link \o TitleQuery \o kept[j].value]

\* a mid-year option was dropped and the one full-year option kept
C4_Witness ==
  /\ GetAllLinksReturned
  /\ Len(arg.html.options) = 2
  /\ Contains(arg.html.options[1].text, MidYear)
  /\ ret.list = <<BaseLink \o TitleQuery \o <<"2", "0">>>>

(***************************************************************************)
(* Properties of the driver (checked under Spec).                          *)
(***************************************************************************)
\* the step that concatenates the years and writes the csv
WritesCsv == pc = "years" /\ pc' = "gitlink"

RECURSIVE RowsBefore(_, _)
\* the number of rows of the first k - 1 frames
RowsBefore(frames, k) ==
  IF k <= 1 THEN 0
  ELSE RowsBefore(frames, k - 1) + Len(frames[k - 1].rows)

\* the value a row holds under a column label
ValueAt(columns, row, label) ==
  row[CHOOSE j \in DOMAIN columns : columns[j] = label]

\* C5: the csv written for a numbeo link has as many rows as the per-year
\* Datasets together, grouped by year in the order of the years, each
\* group holding its Dataset's rows in their order with their values.
C5_Concatenation ==
  [][WritesCsv =>
       LET csv == files'[CsvOf(name)]
       IN  /\ Len(csv.rows) = RowsBefore(data, Len(data) + 1)
           /\ \A k \in DOMAIN data : \A i \in DOMAIN data[k].rows :
                \A p \in DOMAIN data[k].columns :
                  /\ \E j \in DOMAIN csv.columns :
                       csv.columns[j] = data[k].columns[p]
                  /\ ValueAt(csv.columns, csv.rows[RowsBefore(data, k) + i],
                             data[k].columns[p]) = data[k].rows[i][p]]_vars

\* a csv of two years, two rows each, was written
C5_Witness ==
  /\ pc = "gitlink"
  /\ Len(data) = 2
  /\ CsvOf(name) \in DOMAIN files
  /\ files[CsvOf(name)].kind = "csv"
  /\ Len(files[CsvOf(name)].rows) = 4
  /\ ValueAt(files[CsvOf(name)].columns, files[CsvOf(name)].rows[3], YearLabel)
       = Num(20, 0)

\* C6: the csv written for a numbeo link carries the index 0..N-1, each
\* value once, in row order.
C6_FreshIndex ==
  [][WritesCsv =>
       LET csv == files'[CsvOf(name)]
       IN  csv.index = [i \in DOMAIN csv.rows |-> i - 1]]_vars

\* the digits after the last "=" of a URL, up to the first "-"
TrailingYear(url) ==
  LET eq == CHOOSE i \in DOMAIN url :
              url[i] = "=" /\ \A j \in (i + 1)..Len(url) : url[j] # "="
      seg == SubSeq(url, eq + 1, Len(url))
      stop == IF \E i \in DOMAIN seg : seg[i] = "-"
              THEN CHOOSE i \in DOMAIN seg :
                     seg[i] = "-" /\ \A j \in 1..(i - 1) : seg[j] # "-"
              ELSE Len(seg) + 1
  IN  DigitsToNat(SubSeq(seg, 1, stop - 1))

\* C7: every row of the k-th per-year Dataset has, under the label Year,
\* the integer written after the last "=" of the k-th URL up to its first
\* "-", and that URL is the link followed by ?title= and the option value.
C7_YearColumn ==
  \A k \in DOMAIN data :
    /\ k \in DOMAIN year_links
    /\ pc = "years" => StartsWith(year_links[k], link \o TitleQuery)
    /\ \E j \in DOMAIN data[k].columns : data[k].columns[j] = YearLabel
    /\ \A i \in DOMAIN data[k].rows :
         ValueAt(data[k].columns, data[k].rows[i], YearLabel)
           = Num(TrailingYear(year_links[k]), 0)

\* the year 21 was taken from the option value 21-1
C7_Witness ==
  /\ Len(data) = 2
  /\ year_links[2] = NUMBEO \o TitleQuery \o <<"2", "1", "-", "1">>
  /\ Len(data[2].rows) = 2
  /\ ValueAt(data[2].columns, data[2].rows[2], YearLabel) = Num(21, 0)
  /\ ValueAt(data[1].columns, data[1].rows[2], YearLabel) = Num(20, 0)

\* a Dataset without its Year column
DropYear(df) ==
  LET keep == {j \in DOMAIN df.columns : df.columns[j] # YearLabel}
  IN  [columns |-> SelectSeq(df.columns, LAMBDA c : c # YearLabel),
       rows |-> [i \in DOMAIN df.rows |-> [j \in keep |-> df.rows[i][j]]]]

\* C8: every request the driver makes is for the link of a link-list line,
\* never for a URL built for a year: while the years of a numbeo link are
\* fetched, the request of the discovery and each of the fetches made so
\* far asked for that link, one fetch per Dataset collected; and two
\* fetches that were answered with the same page gave the same Dataset
\* apart from the Year column.
C8_FetchesBaseLink ==
  /\ \A i \in DOMAIN requests : ~Contains(requests[i], TitleQuery)
  /\ pc = "years" =>
       /\ Len(requests) >= Len(data) + 1
       /\ \A j \in 0..Len(data) : requests[Len(requests) - j] = link
  /\ Len(served) = Len(data)
  /\ \A a, b \in DOMAIN data :
       served[a] = served[b] => DropYear(data[a]) = DropYear(data[b])

\* two years fetched from the same page of the link: same rows, other Year
C8_Witness ==
  /\ pc = "years"
  /\ Len(data) = 2
  /\ Len(year_links) = 2
  /\ served[1] = served[2]
  /\ requests = <<NUMBEO, NUMBEO, NUMBEO>>
  /\ data[1] # data[2]
  /\ DropYear(data[1]) = DropYear(data[2])

\* C9: a step of a numbeo line that raises ends the run at that line with
\* the directory and the manifest as they were, the line's csv absent; a
\* numbeo line without a kept year can only end that way; and a run that
\* has ended this way takes no further step (the only step possible is a
\* new start of the script).
C9_ErrorsEndTheRun ==
  [][/\ (pc = "years" /\ year_links = <<>> /\ pc' # pc) =>
          pc' = "crashed" /\ error' = "ValueError"
     /\ (error' # None /\ error = None /\ WellFormed /\ Branch(link) = "numbeo") =>
          /\ pc' = "crashed"
          /\ files' = files
          /\ CsvOf(name) \notin DOMAIN files'
          /\ gitlinks' = gitlinks
          /\ Len(gitlinks') = pos - 1
          /\ pos' = pos
     /\ (error # None \/ pc = "crashed") =>
          /\ error # None
          /\ pc = "crashed"
          /\ run' = run + 1]_vars

\* a numbeo line raised after a year had been fetched, with a line to follow
C9_Witness ==
  /\ pc = "crashed"
  /\ WellFormed
  /\ Branch(link) = "numbeo"
  /\ Len(data) >= 1
  /\ pos < Len(links)
  /\ CsvOf(name) \notin DOMAIN files
  /\ Len(gitlinks) = pos - 1

\* the name on line i of the link list
NameOfLine(i) == Split(links[i], " ")[2]

\* the manifest holds one line for each link-list line gone through
ManifestFollowsList ==
  /\ pc = "loop" =>
       gitlinks = [i \in 1..(pos - 1) |-> GitLink(NameOfLine(i))]
  /\ pc = "done" =>
       gitlinks = [i \in DOMAIN links |-> GitLink(NameOfLine(i))]
  /\ (run >= 2 /\ prev.completed) =>
       /\ requests = <<>>
       /\ pc = "done" => gitlinks = prev.gitlinks

\* a line whose <name>.csv is in the data directory causes no request,
\* opens no browser and leaves every data file alone; every line gone
\* through without an exception, skipped or not, adds exactly its one
\* manifest line
SkipFrame ==
  /\ (AtLine /\ WellFormed /\ CsvOf(name) \in DOMAIN files) =>
       /\ requests' = requests
       /\ browser' = browser
       /\ files' = files
       /\ pc' = "gitlink"
  /\ (pc = "gitlink") =>
       /\ gitlinks' = Append(gitlinks, GitLink(name))
       /\ requests' = requests /\ browser' = browser /\ files' = files
  /\ (pc # "gitlink" /\ run' = run) => gitlinks' = gitlinks

\* C10: a line whose <name>.csv is in the data directory causes no request,
\* opens no browser and leaves every data file alone; every line gone
\* through without an exception, skipped or not, adds exactly its one
\* manifest line, so a run that completes leaves one manifest line per
\* link-list line in order; and a run after a completed run makes no
\* request and leaves the same manifest.
C10_SkipIfExists == [][SkipFrame /\ ManifestFollowsList']_vars

\* the part of C10 that does not speak of a second run
C10_WithinOneRun ==
  [][/\ SkipFrame
     /\ (pc' = "loop" /\ run' = run) =>
          gitlinks' = [i \in 1..(pos' - 1) |-> GitLink(NameOfLine(i))]
     /\ pc' = "done" =>
          gitlinks' = [i \in DOMAIN links |-> GitLink(NameOfLine(i))]]_vars


====
